---- MODULE Spec2Model ----
(***************************************************************************)
(* Tick-level model of serialcommander: the UART (uart.py), the Commander  *)
(* (commander.py) and the command tasks (toggler.py, trigger.py,           *)
(* printer.py).  Every register of the design is a variable (or a field of *)
(* a task's record); every combinational signal is an operator over the    *)
(* current registers.  One step of a specification is one clock tick: all  *)
(* next values are computed from the current ones and commit together.     *)
(***************************************************************************)
EXTENDS Integers, Sequences, FiniteSets, TLC

VARIABLES
    cfg,            \* constructor parameters of the rig (never change)
    \* ---- UART registers (uart.py)
    tx_phase, tx_shreg, tx_count,
    rx_phase, rx_shreg, rx_count, rx_rdy, rx_ovf,
    rx_ack,         \* input register of the UART, driven by its consumer
    rx_i,           \* level of the receive line during the current tick
    \* ---- Commander registers (commander.py)
    fsm, activeCommand, activeStart, done_last,
    \* ---- task registers, one record per registered task
    toggler, trigger, text, bsig, bmem, dec,
    \* ---- source signals read by the signal printers, and how often the
    \*      environment may still change them
    bin_signal, dec_signal, sig_left,
    \* ---- the host on the receive line (UART.test_send_char)
    host_pos, host_char, host_left,
    \* ---- the loopback test's process (test_uart_loopback.transmit_proc)
    drv_pc, drv_wait, test_byte,
    \* ---- history, written but never read by the design
    sent,           \* bytes loaded into the transmitter since the last dispatch
    started,        \* source signal value at the last accepted start edge
    received,       \* per task: matching bytes read by the dispatcher
    starts,         \* per task: ticks on which its start input was high
    runs,           \* per task: start edges it accepted
    emitted,        \* times the selected task raised tx_rdy since the last dispatch
    \* ---- observers of the test rigs
    counter,        \* test_trigger's counter: ticks on which Trigger.output was high
    tx_frame,       \* the frame the transmitter last accepted, its age in ticks,
                    \* and whether tx_rdy was high on the last tick
    rx_frame,       \* the samples the receiver took since the last start edge
    delivered,      \* what the receiver showed each time rx_rdy rose
    dones           \* per task: ticks on which its done output was high

uartVars == <<tx_phase, tx_shreg, tx_count, rx_phase, rx_shreg, rx_count,
              rx_rdy, rx_ovf, rx_ack, rx_i>>
cmdVars  == <<fsm, activeCommand, activeStart, done_last>>
taskVars == <<toggler, trigger, text, bsig, bmem, dec>>
envVars  == <<bin_signal, dec_signal, sig_left, host_pos, host_char, host_left>>
drvVars  == <<drv_pc, drv_wait, test_byte>>
histVars == <<sent, started, received, starts, runs>>
obsVars  == <<emitted, counter, tx_frame, rx_frame, delivered, dones>>
vars == <<cfg, uartVars, cmdVars, taskVars, envVars, drvVars, histVars, obsVars>>

(***************************************************************************)
(* Bounds of the exploration and constants of the program.                 *)
(***************************************************************************)
MinDivisor == 4
MaxDivisor == 8
DataBits == 8
LoopbackWaitBits == 12

\* ------------------------------------------------------------ bit vectors
Pow2(n) == 2 ^ n
Bit(x, i) == (x \div Pow2(i)) % 2
Trunc(x, w) == x % Pow2(w)
AllOnes(w) == Pow2(w) - 1

(***************************************************************************)
(* UART (uart.py).                                                         *)
(***************************************************************************)
TxLen(data_bits) == 1 + data_bits + 1
RxLen(data_bits) == 1 + data_bits + 2

\* A frame without the shift that makes room for the start bit.
TxFrame_NoStartBit(tx_data, data_bits) ==
    Trunc(tx_data, data_bits) + Pow2(data_bits + 1)

\* Cat(C(0, 1), tx_data, C(1, 1))
TxFrame(tx_data, data_bits) ==
    2 * Trunc(tx_data, data_bits) + Pow2(data_bits + 1)

tx_o == Bit(tx_shreg, 0)

\* An acknowledge that comes while the stop bit is still on the wire.
tx_ack_DuringStop == tx_count <= 1

tx_ack == (tx_count = 0)

\* rx_data.eq(rx_shreg[1:-1]), cut to the data_bits of rx_data
RxData == Trunc(rx_shreg \div 2, cfg.data_bits)

\* rx_err.eq(~(~rx_shreg[0] & rx_shreg[-1])) while rx_count == 0, else 0
RxErr ==
    /\ rx_count = 0
    /\ ~(Bit(rx_shreg, 0) = 0 /\ Bit(rx_shreg, RxLen(cfg.data_bits) - 1) = 1)

\* A transmitter whose phase counts from divisor: a bit lasts divisor + 1.
UartTx_LongBits(rdy, data) ==
    IF tx_count = 0
    THEN IF rdy
         THEN [shreg |-> TxFrame(data, cfg.data_bits),
               count |-> TxLen(cfg.data_bits),
               phase |-> cfg.divisor]
         ELSE [shreg |-> tx_shreg, count |-> tx_count, phase |-> tx_phase]
    ELSE IF tx_phase # 0
         THEN [shreg |-> tx_shreg, count |-> tx_count, phase |-> tx_phase - 1]
         ELSE [shreg |-> (tx_shreg \div 2) + Pow2(TxLen(cfg.data_bits) - 1),
               count |-> tx_count - 1,
               phase |-> cfg.divisor]

\* A transmitter that takes a byte whenever tx_rdy is high, idle or not.
UartTx_Preempts(rdy, data) ==
    IF rdy
    THEN [shreg |-> TxFrame(data, cfg.data_bits),
          count |-> TxLen(cfg.data_bits),
          phase |-> cfg.divisor - 1]
    ELSE IF tx_count = 0
         THEN [shreg |-> tx_shreg, count |-> tx_count, phase |-> tx_phase]
         ELSE IF tx_phase # 0
              THEN [shreg |-> tx_shreg, count |-> tx_count,
                    phase |-> tx_phase - 1]
              ELSE [shreg |-> (tx_shreg \div 2) + Pow2(TxLen(cfg.data_bits) - 1),
                    count |-> tx_count - 1,
                    phase |-> cfg.divisor - 1]

\* The transmitter's registers after a tick with inputs tx_rdy, tx_data.
UartTx(rdy, data) ==
    IF tx_count = 0
    THEN IF rdy
         THEN [shreg |-> TxFrame(data, cfg.data_bits),
               count |-> TxLen(cfg.data_bits),
               phase |-> cfg.divisor - 1]
         ELSE [shreg |-> tx_shreg, count |-> tx_count, phase |-> tx_phase]
    ELSE IF tx_phase # 0
         THEN [shreg |-> tx_shreg, count |-> tx_count, phase |-> tx_phase - 1]
         ELSE [shreg |-> (tx_shreg \div 2) + Pow2(TxLen(cfg.data_bits) - 1),
               count |-> tx_count - 1,
               phase |-> cfg.divisor - 1]

\* The phase the receiver starts a frame with: self.divisor // 2.
RxStartPhase(divisor) == divisor \div 2

\* A receiver that starts a frame on any low level, pending byte or not.
UartRx_Overwrites(line, ack) ==
    LET hold == [shreg |-> rx_shreg, count |-> rx_count, phase |-> rx_phase,
                 rdy |-> rx_rdy, ovf |-> rx_ovf]
    IN
    IF rx_count = 0
    THEN IF line = 0
         THEN [hold EXCEPT !.rdy = FALSE, !.ovf = ~(ack \/ ~rx_rdy),
                           !.count = RxLen(cfg.data_bits),
                           !.phase = RxStartPhase(cfg.divisor)]
         ELSE [hold EXCEPT !.rdy = IF ack THEN FALSE ELSE rx_rdy]
    ELSE IF rx_phase # 0
         THEN [hold EXCEPT !.phase = rx_phase - 1]
         ELSE [hold EXCEPT
                 !.shreg = (rx_shreg \div 2)
                           + line * Pow2(RxLen(cfg.data_bits) - 1),
                 !.count = rx_count - 1,
                 !.phase = cfg.divisor - 1,
                 !.rdy = IF rx_count = 1 THEN TRUE ELSE rx_rdy]

\* The receiver's registers after a tick with line level `line` and rx_ack.
UartRx(line, ack) ==
    LET hold == [shreg |-> rx_shreg, count |-> rx_count, phase |-> rx_phase,
                 rdy |-> rx_rdy, ovf |-> rx_ovf]
    IN
    IF rx_count = 0
    THEN IF line = 0
         THEN IF ack \/ ~rx_rdy
              THEN [hold EXCEPT !.rdy = FALSE, !.ovf = FALSE,
                                !.count = RxLen(cfg.data_bits),
                                !.phase = RxStartPhase(cfg.divisor)]
              ELSE [hold EXCEPT !.ovf = TRUE]
         ELSE [hold EXCEPT !.rdy = IF ack THEN FALSE ELSE rx_rdy]
    ELSE IF rx_phase # 0
         THEN [hold EXCEPT !.phase = rx_phase - 1]
         ELSE [hold EXCEPT
                 !.shreg = (rx_shreg \div 2)
                           + line * Pow2(RxLen(cfg.data_bits) - 1),
                 !.count = rx_count - 1,
                 !.phase = cfg.divisor - 1,
                 !.rdy = IF rx_count = 1 THEN TRUE ELSE rx_rdy]

\* One tick of the UART with inputs tx_rdy, tx_data, rx_i and rx_ack: both
\* halves step from the current registers.
UartTick(rdy, data, line, ack) ==
    LET t == UartTx(rdy, data)
        r == UartRx(line, ack)
    IN  /\ tx_shreg' = t.shreg /\ tx_count' = t.count /\ tx_phase' = t.phase
        /\ rx_shreg' = r.shreg /\ rx_count' = r.count /\ rx_phase' = r.phase
        /\ rx_rdy' = r.rdy /\ rx_ovf' = r.ovf

(***************************************************************************)
(* Tasks.  Each task's step takes the task's registers t and its inputs    *)
(* (start, tx_ack, and what it reads) and gives its registers after the    *)
(* tick.  start_last follows start on every tick, outside the FSM.         *)
(***************************************************************************)
Ord0 == 48
Ord1 == 49
OrdNewline == 10

\* A start taken by its level.
StartEdge_Level(t, start) == start

StartEdge(t, start) == start /\ ~t.start_last

\* ---- Toggler (toggler.py)
TogglerInit ==
    [fsm |-> "IDLE", start_last |-> FALSE, done |-> FALSE, output |-> FALSE]

\* The bit the start edge leaves in output.
ToggledOutput_Set(output) == TRUE
ToggledOutput(output) == ~output

\* A FINISH that leaves done high.
TogglerStep_DoneStays(t, start) ==
    LET u == [t EXCEPT !.start_last = start]
    IN  CASE t.fsm = "IDLE" ->
               IF StartEdge(t, start)
               THEN [u EXCEPT !.output = ToggledOutput(t.output), !.done = TRUE,
                              !.fsm = "FINISH"]
               ELSE u
          [] t.fsm = "FINISH" -> [u EXCEPT !.fsm = "IDLE"]

TogglerStep(t, start) ==
    LET u == [t EXCEPT !.start_last = start]
    IN  CASE t.fsm = "IDLE" ->
               IF StartEdge(t, start)
               THEN [u EXCEPT !.output = ToggledOutput(t.output), !.done = TRUE,
                              !.fsm = "FINISH"]
               ELSE u
          [] t.fsm = "FINISH" -> [u EXCEPT !.done = FALSE, !.fsm = "IDLE"]

\* ---- Trigger (trigger.py)
TriggerInit ==
    [fsm |-> "IDLE", start_last |-> FALSE, done |-> FALSE, output |-> FALSE]

\* A FINISH that leaves output as it is.
TriggerStep_Persists(t, start) ==
    LET u == [t EXCEPT !.start_last = start]
    IN  CASE t.fsm = "IDLE" ->
               IF StartEdge(t, start)
               THEN [u EXCEPT !.output = TRUE, !.done = TRUE, !.fsm = "FINISH"]
               ELSE u
          [] t.fsm = "FINISH" -> [u EXCEPT !.done = FALSE, !.fsm = "IDLE"]

TriggerStep(t, start) ==
    LET u == [t EXCEPT !.start_last = start]
    IN  CASE t.fsm = "IDLE" ->
               IF StartEdge(t, start)
               THEN [u EXCEPT !.output = TRUE, !.done = TRUE, !.fsm = "FINISH"]
               ELSE u
          [] t.fsm = "FINISH" ->
               [u EXCEPT !.output = FALSE, !.done = FALSE, !.fsm = "IDLE"]

\* ---- the read port of a Memory: data follows the address by one tick
MemRead(mem, addr) == IF addr + 1 \in DOMAIN mem THEN mem[addr + 1] ELSE 0
\* What the port shows before its first tick is not fixed by the design:
\* 0, or the word at address 0.
ResetData(mem) == {0, MemRead(mem, 0)}

\* ---- TextMemoryPrinter (printer.py)
TextInit ==
    [fsm |-> "IDLE", start_last |-> FALSE, done |-> FALSE, tx_rdy |-> FALSE,
     print_newline |-> FALSE, m_idx |-> 0, rdata |-> 0]

\* tx_data.eq(Mux(print_newline, ord('\n'), r_port.data))
TextTxData(t) == IF t.print_newline THEN OrdNewline ELSE t.rdata

\* The test of SEND, `self.tx_data == 0 & ~print_newline`: Python's & binds
\* tighter than ==, so tx_data is compared with (0 & ~print_newline), which
\* is 0 whatever print_newline is.
TextAtTerminator(t) == TextTxData(t) = 0

\* The last byte taken to be the one at index `length`.
TextAtEnd_OffByOne(t, length) == t.print_newline \/ t.m_idx = length

\* print_newline | (m_idx == (self.length - 1))
TextAtEnd(t, length) == t.print_newline \/ t.m_idx = length - 1

\* A WAIT_ACK_UP that keeps tx_rdy up until it sees tx_ack high.
TextStep_HoldsRdy(t, start, ack, mem, length) ==
    LET u == [t EXCEPT !.start_last = start, !.rdata = MemRead(mem, t.m_idx)]
    IN  CASE t.fsm = "IDLE" ->
               [u EXCEPT !.done = FALSE, !.print_newline = FALSE,
                         !.fsm = IF StartEdge(t, start) THEN "FETCH" ELSE "IDLE"]
          [] t.fsm = "FETCH" -> [u EXCEPT !.fsm = "SEND"]
          [] t.fsm = "SEND" ->
               IF TextAtTerminator(t)
               THEN [u EXCEPT !.print_newline = TRUE]
               ELSE [u EXCEPT !.tx_rdy = TRUE, !.fsm = "WAIT_ACK_DOWN"]
          [] t.fsm = "WAIT_ACK_DOWN" ->
               IF ~ack THEN [u EXCEPT !.fsm = "WAIT_ACK_UP"] ELSE u
          [] t.fsm = "WAIT_ACK_UP" ->
               IF ack
               THEN IF TextAtEnd(t, length)
                    THEN [u EXCEPT !.tx_rdy = FALSE, !.fsm = "IDLE",
                                   !.m_idx = 0, !.done = TRUE]
                    ELSE [u EXCEPT !.tx_rdy = FALSE, !.fsm = "FETCH",
                                   !.m_idx = t.m_idx + 1]
               ELSE u

TextStep(t, start, ack, mem, length) ==
    LET u == [t EXCEPT !.start_last = start, !.rdata = MemRead(mem, t.m_idx)]
    IN  CASE t.fsm = "IDLE" ->
               [u EXCEPT !.done = FALSE, !.print_newline = FALSE,
                         !.fsm = IF StartEdge(t, start) THEN "FETCH" ELSE "IDLE"]
          [] t.fsm = "FETCH" -> [u EXCEPT !.fsm = "SEND"]
          [] t.fsm = "SEND" ->
               IF TextAtTerminator(t)
               THEN [u EXCEPT !.print_newline = TRUE]
               ELSE [u EXCEPT !.tx_rdy = TRUE, !.fsm = "WAIT_ACK_DOWN"]
          [] t.fsm = "WAIT_ACK_DOWN" ->
               IF ~ack THEN [u EXCEPT !.fsm = "WAIT_ACK_UP"] ELSE u
          [] t.fsm = "WAIT_ACK_UP" ->
               IF ack
               THEN IF TextAtEnd(t, length)
                    THEN [u EXCEPT !.tx_rdy = FALSE, !.fsm = "IDLE",
                                   !.m_idx = 0, !.done = TRUE]
                    ELSE [u EXCEPT !.tx_rdy = FALSE, !.fsm = "FETCH",
                                   !.m_idx = t.m_idx + 1]
               ELSE [u EXCEPT !.tx_rdy = FALSE]

\* ---- BinarySignalPrinter (printer.py)
BsigInit ==
    [fsm |-> "IDLE", start_last |-> FALSE, done |-> FALSE, tx_rdy |-> FALSE,
     snapshot |-> 0, digit |-> 0, char |-> 0]

\* The characters swapped.
BsigChar_Swapped(snapshot) == IF Bit(snapshot, 0) = 1 THEN Ord0 ELSE Ord1

\* char for the bit about to be sent: snapshot[0]
BsigChar(snapshot) == IF Bit(snapshot, 0) = 1 THEN Ord1 ELSE Ord0

\* A WAIT_ACK_UP that clears tx_rdy only on the tick it reads tx_ack high.
BsigStep_ClearsOnAck(t, start, ack, signal, width) ==
    LET u == [t EXCEPT !.start_last = start]
    IN  CASE t.fsm = "IDLE" ->
               IF StartEdge(t, start)
               THEN [u EXCEPT !.done = FALSE, !.snapshot = Trunc(signal, width),
                              !.digit = 0, !.char = Ord0, !.fsm = "SEND"]
               ELSE [u EXCEPT !.done = FALSE]
          [] t.fsm = "SEND" ->
               [u EXCEPT !.char = BsigChar(t.snapshot), !.tx_rdy = TRUE,
                         !.fsm = "WAIT_ACK_DOWN"]
          [] t.fsm = "WAIT_ACK_DOWN" ->
               IF ~ack THEN [u EXCEPT !.fsm = "WAIT_ACK_UP"] ELSE u
          [] t.fsm = "WAIT_ACK_UP" ->
               IF ack
               THEN IF t.digit < width - 1
                    THEN [u EXCEPT !.tx_rdy = FALSE,
                                   !.snapshot = t.snapshot \div 2,
                                   !.digit = t.digit + 1, !.fsm = "SEND"]
                    ELSE [u EXCEPT !.tx_rdy = FALSE, !.done = TRUE,
                                   !.fsm = "IDLE"]
               ELSE u

BsigStep(t, start, ack, signal, width) ==
    LET u == [t EXCEPT !.start_last = start]
    IN  CASE t.fsm = "IDLE" ->
               IF StartEdge(t, start)
               THEN [u EXCEPT !.done = FALSE, !.snapshot = Trunc(signal, width),
                              !.digit = 0, !.char = Ord0, !.fsm = "SEND"]
               ELSE [u EXCEPT !.done = FALSE]
          [] t.fsm = "SEND" ->
               [u EXCEPT !.char = BsigChar(t.snapshot), !.tx_rdy = TRUE,
                         !.fsm = "WAIT_ACK_DOWN"]
          [] t.fsm = "WAIT_ACK_DOWN" ->
               IF ~ack THEN [u EXCEPT !.fsm = "WAIT_ACK_UP"] ELSE u
          [] t.fsm = "WAIT_ACK_UP" ->
               IF ack
               THEN IF t.digit < width - 1
                    THEN [u EXCEPT !.tx_rdy = FALSE,
                                   !.snapshot = t.snapshot \div 2,
                                   !.digit = t.digit + 1, !.fsm = "SEND"]
                    ELSE [u EXCEPT !.tx_rdy = FALSE, !.done = TRUE,
                                   !.fsm = "IDLE"]
               ELSE [u EXCEPT !.tx_rdy = FALSE]

\* ---- BinaryMemoryPrinter (printer.py)
BmemInit ==
    [fsm |-> "IDLE", start_last |-> FALSE, done |-> FALSE, tx_rdy |-> FALSE,
     m_idx |-> 0, b_idx |-> 0, rdata |-> 0]

\* A mask of b_idx itself instead of 1 << b_idx.
BmemTxData_MaskIsIndex(t) ==
    IF \E k \in 0 .. 7 : Bit(t.rdata, k) = 1 /\ Bit(t.b_idx, k) = 1
    THEN Ord1 ELSE Ord0

\* (r_port.data & (1 << b_idx)) > 0 selects '1', else '0'
BmemTxData(t) == IF Bit(t.rdata, t.b_idx) = 1 THEN Ord1 ELSE Ord0

\* A last byte that leaves m_idx and b_idx where they are.
BmemStep_KeepsIndex(t, start, ack, mem, width, length) ==
    LET u == [t EXCEPT !.start_last = start, !.rdata = MemRead(mem, t.m_idx)]
    IN  CASE t.fsm = "IDLE" ->
               [u EXCEPT !.done = FALSE,
                         !.fsm = IF StartEdge(t, start) THEN "FETCH" ELSE "IDLE"]
          [] t.fsm = "FETCH" -> [u EXCEPT !.fsm = "SEND"]
          [] t.fsm = "SEND" -> [u EXCEPT !.tx_rdy = TRUE, !.fsm = "WAIT_ACK_DOWN"]
          [] t.fsm = "WAIT_ACK_DOWN" ->
               IF ~ack THEN [u EXCEPT !.fsm = "WAIT_ACK_UP"] ELSE u
          [] t.fsm = "WAIT_ACK_UP" ->
               IF ack
               THEN IF t.m_idx = length - 1 /\ t.b_idx = width - 1
                    THEN [u EXCEPT !.tx_rdy = FALSE, !.fsm = "IDLE",
                                   !.done = TRUE]
                    ELSE IF t.b_idx = width - 1
                         THEN [u EXCEPT !.tx_rdy = FALSE,
                                        !.m_idx = t.m_idx + 1, !.b_idx = 0,
                                        !.fsm = "FETCH"]
                         ELSE [u EXCEPT !.tx_rdy = FALSE,
                                        !.b_idx = t.b_idx + 1, !.fsm = "SEND"]
               ELSE [u EXCEPT !.tx_rdy = FALSE]

BmemStep(t, start, ack, mem, width, length) ==
    LET u == [t EXCEPT !.start_last = start, !.rdata = MemRead(mem, t.m_idx)]
    IN  CASE t.fsm = "IDLE" ->
               [u EXCEPT !.done = FALSE,
                         !.fsm = IF StartEdge(t, start) THEN "FETCH" ELSE "IDLE"]
          [] t.fsm = "FETCH" -> [u EXCEPT !.fsm = "SEND"]
          [] t.fsm = "SEND" -> [u EXCEPT !.tx_rdy = TRUE, !.fsm = "WAIT_ACK_DOWN"]
          [] t.fsm = "WAIT_ACK_DOWN" ->
               IF ~ack THEN [u EXCEPT !.fsm = "WAIT_ACK_UP"] ELSE u
          [] t.fsm = "WAIT_ACK_UP" ->
               IF ack
               THEN IF t.m_idx = length - 1 /\ t.b_idx = width - 1
                    THEN [u EXCEPT !.tx_rdy = FALSE, !.fsm = "IDLE",
                                   !.m_idx = 0, !.b_idx = 0, !.done = TRUE]
                    ELSE IF t.b_idx = width - 1
                         THEN [u EXCEPT !.tx_rdy = FALSE,
                                        !.m_idx = t.m_idx + 1, !.b_idx = 0,
                                        !.fsm = "FETCH"]
                         ELSE [u EXCEPT !.tx_rdy = FALSE,
                                        !.b_idx = t.b_idx + 1, !.fsm = "SEND"]
               ELSE [u EXCEPT !.tx_rdy = FALSE]

\* ---- DecimalSignalPrinter (printer.py)
\* math.ceil(math.log(2**len(signal))/math.log(10)): the least d with
\* 10^d >= 2^width (2^width is no power of ten for width >= 1).
RECURSIVE CeilLog10(_, _)
CeilLog10(x, d) == IF 10 ^ d >= x THEN d ELSE CeilLog10(x, d + 1)
DecDigits(width) == CeilLog10(Pow2(width), 0)

\* bits of Signal(range(n))
RECURSIVE BitsFor(_, _)
BitsFor(n, b) == IF Pow2(b) >= n THEN b ELSE BitsFor(n, b + 1)
RangeBits(n) == IF n <= 1 THEN 0 ELSE BitsFor(n, 0)

DecInit ==
    [fsm |-> "IDLE", start_last |-> FALSE, done |-> FALSE, tx_rdy |-> FALSE,
     snapshot |-> 0, digit |-> 0, char |-> 0, base |-> 0, baseExp |-> 0]

\* A base that is only shifted by three: times eight.
DecTimesTen_OnlyShift3(base, width) == Trunc(base * 8, width)

\* base.eq((base << 3) + (base << 1)), base being `width` bits wide
DecTimesTen(base, width) == Trunc((base * 8) + (base * 2), width)

DecStep(t, start, ack, signal, width) ==
    LET u == [t EXCEPT !.start_last = start]
        digits == DecDigits(width)
    IN  CASE t.fsm = "IDLE" ->
               IF StartEdge(t, start)
               THEN [u EXCEPT !.done = FALSE, !.snapshot = Trunc(signal, width),
                              !.digit = Trunc(digits - 1, RangeBits(digits)),
                              !.base = Trunc(1, width), !.baseExp = 0,
                              !.char = Ord0, !.fsm = "MAKE_BASE"]
               ELSE [u EXCEPT !.done = FALSE]
          [] t.fsm = "MAKE_BASE" ->
               IF t.baseExp < t.digit
               THEN [u EXCEPT !.base = DecTimesTen(t.base, width),
                              !.baseExp = Trunc(t.baseExp + 1, RangeBits(digits))]
               ELSE [u EXCEPT !.fsm = "COUNTDOWN"]
          [] t.fsm = "COUNTDOWN" ->
               IF t.snapshot < t.base
               THEN [u EXCEPT !.fsm = "SEND"]
               ELSE [u EXCEPT !.snapshot = Trunc(t.snapshot - t.base, width),
                              !.char = Trunc(t.char + 1, 8)]
          [] t.fsm = "SEND" -> [u EXCEPT !.tx_rdy = TRUE, !.fsm = "WAIT_ACK_DOWN"]
          [] t.fsm = "WAIT_ACK_DOWN" ->
               IF ~ack THEN [u EXCEPT !.fsm = "WAIT_ACK_UP"] ELSE u
          [] t.fsm = "WAIT_ACK_UP" ->
               IF ack
               THEN IF t.digit > 0
                    THEN [u EXCEPT !.tx_rdy = FALSE, !.digit = t.digit - 1,
                                   !.base = Trunc(1, width), !.baseExp = 0,
                                   !.char = Ord0, !.fsm = "MAKE_BASE"]
                    ELSE [u EXCEPT !.tx_rdy = FALSE, !.done = TRUE,
                                   !.fsm = "IDLE"]
               ELSE [u EXCEPT !.tx_rdy = FALSE]

(***************************************************************************)
(* The rig: a Commander over the UART with one task of every kind, in the  *)
(* order of registration.  A task's index is its 1-based position.         *)
(***************************************************************************)
Letters == <<49, 50, 51, 52, 53, 54>>   \* '1' .. '6'
TaskIds == 1 .. Len(Letters)
TOGGLER == 1
TRIGGER == 2
TEXT == 3
BSIG == 4
BMEM == 5
DEC == 6

\* What task i drives: tx_data, tx_rdy (both 0 for a task that never
\* assigns them) and done.
TaskOut(i) ==
    CASE i = TOGGLER -> [tx_data |-> 0, tx_rdy |-> FALSE, done |-> toggler.done]
      [] i = TRIGGER -> [tx_data |-> 0, tx_rdy |-> FALSE, done |-> trigger.done]
      [] i = TEXT -> [tx_data |-> TextTxData(text), tx_rdy |-> text.tx_rdy,
                      done |-> text.done]
      [] i = BSIG -> [tx_data |-> bsig.char, tx_rdy |-> bsig.tx_rdy,
                      done |-> bsig.done]
      [] i = BMEM -> [tx_data |-> BmemTxData(bmem), tx_rdy |-> bmem.tx_rdy,
                      done |-> bmem.done]
      [] i = DEC -> [tx_data |-> dec.char, tx_rdy |-> dec.tx_rdy,
                     done |-> dec.done]

TaskFsm(i) ==
    CASE i = TOGGLER -> toggler.fsm [] i = TRIGGER -> trigger.fsm
      [] i = TEXT -> text.fsm [] i = BSIG -> bsig.fsm
      [] i = BMEM -> bmem.fsm [] i = DEC -> dec.fsm

TaskStartLast(i) ==
    CASE i = TOGGLER -> toggler.start_last [] i = TRIGGER -> trigger.start_last
      [] i = TEXT -> text.start_last [] i = BSIG -> bsig.start_last
      [] i = BMEM -> bmem.start_last [] i = DEC -> dec.start_last

(***************************************************************************)
(* Commander (commander.py): the multiplexer (the Switch on activeCommand, *)
(* combinational) and the FSM.                                             *)
(***************************************************************************)
\* Case(0) drives 0; Case(i) wires task i.  A signal no Case drives keeps
\* its reset value 0.
\* A multiplexer that wires the text printer's byte whatever is selected.
UartTxData_FixedTask == TaskOut(TEXT).tx_data

UartTxData == IF activeCommand = 0 THEN 0 ELSE TaskOut(activeCommand).tx_data
UartTxRdy == IF activeCommand = 0 THEN FALSE ELSE TaskOut(activeCommand).tx_rdy
ActiveDone == IF activeCommand = 0 THEN FALSE ELSE TaskOut(activeCommand).done
\* A start line wired to every task at once.
TaskStart_Broadcast(i) == activeStart

TaskStart(i) == activeCommand = i /\ activeStart
TaskTxAck(i) == activeCommand = i /\ tx_ack

\* An index counted from 0, which is also "no command".
LetterToIndex_ZeroBased(byte) ==
    IF \E i \in TaskIds : Letters[i] = byte
    THEN (CHOOSE i \in TaskIds : Letters[i] = byte) - 1
    ELSE 0

\* A Default that falls into the first command.
LetterToIndex_DefaultFirst(byte) ==
    IF \E i \in TaskIds : Letters[i] = byte
    THEN CHOOSE i \in TaskIds : Letters[i] = byte
    ELSE 1

\* The Switch on rx_data in READ_CHAR: the index of the letter, 0 for Default.
LetterToIndex(byte) ==
    IF \E i \in TaskIds : Letters[i] = byte
    THEN CHOOSE i \in TaskIds : Letters[i] = byte
    ELSE 0

\* A test that waits for done to have been high on two ticks.
DoneEdge_HeldHigh == ActiveDone /\ done_last

\* The done edge RUN_TASK_WAIT waits for.
DoneEdge == ActiveDone /\ ~done_last

\* A RUN_TASK_WAIT that acknowledges a byte as soon as it is ready.
CommanderTick_AcksWhileRunning ==
    CASE fsm = "WAIT_MESSAGE" ->
           /\ rx_ack' = FALSE
           /\ fsm' = IF rx_rdy THEN "READ_CHAR" ELSE "WAIT_MESSAGE"
           /\ UNCHANGED <<activeCommand, activeStart, done_last>>
      [] fsm = "READ_CHAR" ->
           /\ rx_ack' = TRUE
           /\ IF LetterToIndex(RxData) # 0
              THEN activeCommand' = LetterToIndex(RxData)
                   /\ fsm' = "RUN_TASK_START"
              ELSE activeCommand' = activeCommand /\ fsm' = "WAIT_MESSAGE"
           /\ UNCHANGED <<activeStart, done_last>>
      [] fsm = "RUN_TASK_START" ->
           /\ rx_ack' = FALSE
           /\ activeStart' = TRUE
           /\ fsm' = "RUN_TASK_WAIT"
           /\ UNCHANGED <<activeCommand, done_last>>
      [] fsm = "RUN_TASK_WAIT" ->
           /\ activeStart' = FALSE
           /\ done_last' = ActiveDone
           /\ IF DoneEdge
              THEN activeCommand' = 0 /\ fsm' = "WAIT_MESSAGE"
              ELSE activeCommand' = activeCommand /\ fsm' = "RUN_TASK_WAIT"
           /\ rx_ack' = rx_rdy

CommanderTick ==
    CASE fsm = "WAIT_MESSAGE" ->
           /\ rx_ack' = FALSE
           /\ fsm' = IF rx_rdy THEN "READ_CHAR" ELSE "WAIT_MESSAGE"
           /\ UNCHANGED <<activeCommand, activeStart, done_last>>
      [] fsm = "READ_CHAR" ->
           /\ rx_ack' = TRUE
           /\ IF LetterToIndex(RxData) # 0
              THEN activeCommand' = LetterToIndex(RxData)
                   /\ fsm' = "RUN_TASK_START"
              ELSE activeCommand' = activeCommand /\ fsm' = "WAIT_MESSAGE"
           /\ UNCHANGED <<activeStart, done_last>>
      [] fsm = "RUN_TASK_START" ->
           /\ rx_ack' = FALSE
           /\ activeStart' = TRUE
           /\ fsm' = "RUN_TASK_WAIT"
           /\ UNCHANGED <<activeCommand, done_last>>
      [] fsm = "RUN_TASK_WAIT" ->
           /\ activeStart' = FALSE
           /\ done_last' = ActiveDone
           /\ IF DoneEdge
              THEN activeCommand' = 0 /\ fsm' = "WAIT_MESSAGE"
              ELSE activeCommand' = activeCommand /\ fsm' = "RUN_TASK_WAIT"
           /\ UNCHANGED rx_ack

TasksTick ==
    /\ toggler' = TogglerStep(toggler, TaskStart(TOGGLER))
    /\ trigger' = TriggerStep(trigger, TaskStart(TRIGGER))
    /\ text' = TextStep(text, TaskStart(TEXT), TaskTxAck(TEXT),
                        cfg.text_mem, Len(cfg.text_mem))
    /\ bsig' = BsigStep(bsig, TaskStart(BSIG), TaskTxAck(BSIG),
                        bin_signal, cfg.bsig_width)
    /\ bmem' = BmemStep(bmem, TaskStart(BMEM), TaskTxAck(BMEM),
                        cfg.bmem_mem, cfg.bmem_width, Len(cfg.bmem_mem))
    /\ dec' = DecStep(dec, TaskStart(DEC), TaskTxAck(DEC),
                      dec_signal, cfg.dec_width)

(***************************************************************************)
(* History of a run.                                                       *)
(***************************************************************************)
TxLoads == tx_count = 0 /\ UartTxRdy
Dispatches == fsm = "READ_CHAR" /\ LetterToIndex(RxData) # 0
Accepts(i) == TaskFsm(i) = "IDLE" /\ TaskStart(i) /\ ~TaskStartLast(i)

HistoryTick ==
    /\ sent' = IF TxLoads THEN Append(sent, Trunc(UartTxData, cfg.data_bits))
               ELSE IF Dispatches THEN <<>> ELSE sent
    /\ started' = [bin |-> IF Accepts(BSIG) THEN bin_signal ELSE started.bin,
                   dec |-> IF Accepts(DEC) THEN dec_signal ELSE started.dec]
    /\ received' = [i \in TaskIds |->
                      received[i] + IF Dispatches /\ LetterToIndex(RxData) = i
                                    THEN 1 ELSE 0]
    /\ starts' = [i \in TaskIds |-> starts[i] + IF TaskStart(i) THEN 1 ELSE 0]
    /\ runs' = [i \in TaskIds |-> runs[i] + IF Accepts(i) THEN 1 ELSE 0]

(***************************************************************************)
(* Observers: what the test rigs attach to the design.                     *)
(***************************************************************************)
\* test_trigger: counter = Signal(3), counter + 1 while Trigger.output is high.
CounterBits == 3
CounterTick ==
    counter' = IF trigger.output THEN Trunc(counter + 1, CounterBits)
               ELSE counter

\* A byte is emitted when a task raises its tx_rdy (the tick of SEND).
EmittedTick ==
    emitted' = IF Dispatches THEN 0
               ELSE IF \E i \in TaskIds : ~TaskOut(i).tx_rdy /\ TaskOut(i).tx_rdy'
                    THEN emitted + 1
                    ELSE emitted

\* Each task's done, counted as the dispatcher samples it: once per tick.
DonesTick ==
    dones' = [i \in TaskIds |-> dones[i] + IF TaskOut(i).done THEN 1 ELSE 0]

\* Watching tx_o as test_receive_char does: from the tick the idle
\* transmitter takes a byte, one level every `divisor` ticks, for a start
\* bit, the data bits and a stop bit.
WireBits(data_bits) == 1 + data_bits + 1
TxObserve(rdy, data) ==
    tx_frame' =
       IF tx_count = 0
       THEN IF rdy
            THEN [busy |-> TRUE, byte |-> Trunc(data, cfg.data_bits), age |-> 0,
                  offered |-> TRUE]
            ELSE [tx_frame EXCEPT !.offered = FALSE]
       ELSE IF tx_frame.age + 1 < WireBits(cfg.data_bits) * cfg.divisor
            THEN [tx_frame EXCEPT !.age = @ + 1, !.offered = rdy]
            ELSE [tx_frame EXCEPT !.busy = FALSE, !.age = 0, !.offered = rdy]

\* The level test_receive_char expects on tx_o at a given age of the frame.
WireLevel(byte, age) ==
    LET k == age \div cfg.divisor
    IN  IF k = 0 THEN 0
        ELSE IF k <= cfg.data_bits THEN Bit(byte, k - 1)
        ELSE 1

\* Watching the receiver: the ticks since it saw the start edge, and the
\* level and tick of every sample it shifted in since.
RxObserve(line, ack) ==
    rx_frame' =
       IF rx_count = 0
       THEN IF line = 0 /\ (ack \/ ~rx_rdy)
            THEN [age |-> 0, samples |-> <<>>]
            ELSE rx_frame
       ELSE IF rx_phase = 0
            THEN [age |-> rx_frame.age + 1,
                  samples |-> Append(rx_frame.samples,
                                     [at |-> rx_frame.age + 1, level |-> line])]
            ELSE [rx_frame EXCEPT !.age = @ + 1]

(***************************************************************************)
(* The environment: the source signals, and the host on the receive line.  *)
(***************************************************************************)
\* A source signal may take any value of its width, sig_left times.
SignalMove ==
    \/ UNCHANGED <<bin_signal, dec_signal, sig_left>>
    \/ /\ sig_left > 0
       /\ sig_left' = sig_left - 1
       /\ \/ bin_signal' \in 0 .. AllOnes(cfg.bsig_width) /\ UNCHANGED dec_signal
          \/ dec_signal' \in 0 .. AllOnes(cfg.dec_width) /\ UNCHANGED bin_signal

\* UART.test_send_char: a start bit, 8 data bits LSB first, a "stop bit"
\* that the harness drives low, then the line back high, each for
\* `divisor` ticks.
HostDataBits == 8
HostSegments == 1 + HostDataBits + 1 + 1
HostLevel(char, seg) ==
    IF seg = 0 THEN 0
    ELSE IF seg <= HostDataBits THEN Bit(char, seg - 1)
    ELSE IF seg = HostDataBits + 1 THEN 0
    ELSE 1

UnknownLetter == 120    \* 'x', registered for no task
HostChars == {Letters[i] : i \in TaskIds} \cup {UnknownLetter}

\* One clock tick of the design.
SystemTick ==
    /\ UartTick(UartTxRdy, UartTxData, rx_i, rx_ack)
    /\ CommanderTick
    /\ TasksTick
    /\ HistoryTick
    /\ CounterTick
    /\ EmittedTick
    /\ DonesTick
    /\ SignalMove
    /\ UNCHANGED <<cfg, drvVars, tx_frame, rx_frame, delivered>>

\* The host keeps the line idle.
HostIdle ==
    /\ host_pos = 0
    /\ UNCHANGED <<rx_i, host_pos, host_char, host_left>>
    /\ SystemTick

\* The host starts to send a character.
HostStart ==
    /\ host_pos = 0
    /\ host_left > 0
    /\ \E c \in HostChars : host_char' = c
    /\ host_left' = host_left - 1
    /\ host_pos' = 1
    /\ rx_i' = HostLevel(host_char', 0)
    /\ SystemTick

\* The host goes on with the frame it is sending.
HostStep ==
    /\ host_pos > 0
    /\ IF host_pos = HostSegments * cfg.divisor
       THEN host_pos' = 0 /\ rx_i' = 1
       ELSE host_pos' = host_pos + 1
            /\ rx_i' = HostLevel(host_char, host_pos \div cfg.divisor)
    /\ UNCHANGED <<host_char, host_left>>
    /\ SystemTick

Next == HostIdle \/ HostStart \/ HostStep

(***************************************************************************)
(* Rigs.                                                                   *)
(***************************************************************************)
MaxCmds == 2

BaseCfg ==
    [divisor |-> MinDivisor, data_bits |-> DataBits,
     text_mem |-> <<72, 0, 105>>,            \* "H\0i"
     bsig_width |-> 2, bsig_reset |-> 1,
     bmem_mem |-> <<1, 2>>, bmem_width |-> 2,
     dec_width |-> 4, dec_reset |-> 12]

\* The registers at reset, for a rig built with one of `cfgs` whose transmit
\* path and start line are wired to task `h` (0: as the dispatcher resets).
InitWired(cfgs, h) ==
    /\ cfg \in cfgs
    /\ tx_phase = 0 /\ tx_shreg = AllOnes(TxLen(cfg.data_bits)) /\ tx_count = 0
    /\ rx_phase = 0 /\ rx_shreg = AllOnes(RxLen(cfg.data_bits)) /\ rx_count = 0
    /\ rx_rdy = FALSE /\ rx_ovf = FALSE /\ rx_ack = FALSE
    /\ rx_i = 1
    /\ fsm = "WAIT_MESSAGE" /\ activeCommand = h /\ activeStart = FALSE
    /\ done_last = FALSE
    /\ toggler = TogglerInit /\ trigger = TriggerInit
    /\ bsig = BsigInit /\ dec = DecInit
    /\ \E d \in ResetData(cfg.text_mem) : text = [TextInit EXCEPT !.rdata = d]
    /\ \E d \in ResetData(cfg.bmem_mem) : bmem = [BmemInit EXCEPT !.rdata = d]
    /\ bin_signal = cfg.bsig_reset /\ dec_signal = cfg.dec_reset
    /\ sent = <<>>
    /\ started = [bin |-> 0, dec |-> 0]
    /\ received = [i \in TaskIds |-> 0]
    /\ starts = [i \in TaskIds |-> 0]
    /\ runs = [i \in TaskIds |-> 0]
    /\ emitted = 0 /\ counter = 0
    /\ tx_frame = [busy |-> FALSE, byte |-> 0, age |-> 0, offered |-> FALSE]
    /\ rx_frame = [age |-> 0, samples |-> <<>>]
    /\ delivered = <<>>
    /\ dones = [i \in TaskIds |-> 0]

InitDesign(cfgs) == InitWired(cfgs, 0)

\* A rig whose host sends up to `cmds` characters and whose source signals
\* change up to `changes` times.
InitRig(cfgs, cmds, changes) ==
    /\ InitDesign(cfgs)
    /\ sig_left = changes
    /\ host_pos = 0 /\ host_char = 0 /\ host_left = cmds
    /\ drv_pc = "none" /\ drv_wait = 0 /\ test_byte = 0

Init == InitRig({BaseCfg}, MaxCmds, 0)
Spec == Init /\ [][Next]_vars

(***************************************************************************)
(* The loopback rig of test_uart_loopback: one UART whose rx_i is wired to *)
(* its tx_o, driven by transmit_proc.  The process offers test_byte for    *)
(* one tick, withdraws it, waits divisor * 12 ticks, checks, and           *)
(* acknowledges the read.                                                  *)
(***************************************************************************)
LoopbackTick(rdy, data, ack) ==
    /\ UartTick(rdy, data, tx_o, ack)
    /\ rx_ack' = ack
    /\ rx_i' = Bit(tx_shreg', 0)
    /\ UNCHANGED <<cfg, cmdVars, taskVars, envVars, histVars, obsVars, test_byte>>

\* tx_data.eq(test_byte); tx_rdy.eq(1); yield
LoopbackOffer ==
    /\ drv_pc = "offer"
    /\ LoopbackTick(TRUE, test_byte, FALSE)
    /\ drv_pc' = "withdraw"
    /\ UNCHANGED drv_wait

\* tx_rdy.eq(0); yield
LoopbackWithdraw ==
    /\ drv_pc = "withdraw"
    /\ LoopbackTick(FALSE, test_byte, FALSE)
    /\ drv_pc' = "wait"
    /\ UNCHANGED drv_wait

\* for _ in range(divisor * 12): yield
LoopbackWait ==
    /\ drv_pc = "wait"
    /\ drv_wait < cfg.divisor * LoopbackWaitBits
    /\ LoopbackTick(FALSE, test_byte, FALSE)
    /\ drv_wait' = drv_wait + 1
    /\ drv_pc' = IF drv_wait' = cfg.divisor * LoopbackWaitBits
                 THEN "check" ELSE "wait"

\* rx_ack.eq(1); yield
LoopbackAck ==
    /\ drv_pc = "check"
    /\ LoopbackTick(FALSE, test_byte, TRUE)
    /\ drv_pc' = "done"
    /\ UNCHANGED drv_wait

NextLoopback ==
    LoopbackOffer \/ LoopbackWithdraw \/ LoopbackWait \/ LoopbackAck

InitLoopback ==
    /\ InitDesign({[BaseCfg EXCEPT !.divisor = d] :
                      d \in MinDivisor .. MaxDivisor})
    /\ sig_left = 0
    /\ host_pos = 0 /\ host_char = 0 /\ host_left = 0
    /\ text = TextInit /\ bmem = BmemInit   \* no task in this rig
    /\ drv_pc = "offer" /\ drv_wait = 0
    /\ test_byte \in 0 .. AllOnes(cfg.data_bits)

SpecLoopback == InitLoopback /\ [][NextLoopback]_vars

\* C1: round trip of one byte.  In the loopback rig, for every byte and
\* every divisor from 4 up, the receiver never reports a byte other than the
\* one sent nor a framing error with it, the transmitter is busy right after
\* the byte is accepted, and once the process has waited its divisor * 12
\* ticks the transmitter is idle again and the receiver holds the byte sent,
\* ready, with no framing error.
C1_RoundTrip ==
    /\ (rx_rdy => RxData = test_byte /\ ~RxErr)
    /\ (drv_pc = "wait" /\ drv_wait = 0 => ~tx_ack)
    /\ (drv_pc = "check" => tx_ack /\ rx_rdy /\ RxData = test_byte /\ ~RxErr)

C1_Witness ==
    /\ drv_pc = "check" /\ rx_rdy /\ ~RxErr
    /\ test_byte = 114 /\ RxData = 114 /\ cfg.divisor = 5

(***************************************************************************)
(* Claims about the dispatcher.                                            *)
(***************************************************************************)
IsPrefix(s, t) == Len(s) <= Len(t) /\ \A k \in 1 .. Len(s) : s[k] = t[k]

\* 1 while task i's byte has been read and its start pulse is still to come.
Pending(i) ==
    IF activeCommand = i
       /\ (fsm = "RUN_TASK_START" \/ (fsm = "RUN_TASK_WAIT" /\ activeStart))
    THEN 1 ELSE 0

\* C2: exclusive ownership of the transmit path.  The transmitter loads a
\* frame only on a tick on which a task is selected and that task, and no
\* other, offers a byte; the frame is that task's byte; a byte the selected
\* task offers to the idle transmitter is loaded; and after every tick each
\* task's start_last is high only for the selected task, and only if the
\* dispatcher's start was high; a task waiting for tx_ack to fall goes on
\* unless it is the selected task and the transmitter is idle.
C2_Step ==
    /\ (tx_count = 0 /\ tx_count' # 0) =>
          /\ activeCommand # 0
          /\ TaskOut(activeCommand).tx_rdy
          /\ \A j \in TaskIds \ {activeCommand} : ~TaskOut(j).tx_rdy
          /\ tx_shreg' = TxFrame(TaskOut(activeCommand).tx_data, cfg.data_bits)
    /\ (tx_count = 0 /\ activeCommand # 0 /\ TaskOut(activeCommand).tx_rdy) =>
          tx_count' # 0
    /\ \A i \in TaskIds :
          /\ TaskStartLast(i)' = (activeCommand = i /\ activeStart)
          /\ TaskFsm(i) = "WAIT_ACK_DOWN" =>
                ((TaskFsm(i)' = "WAIT_ACK_UP")
                    <=> ~(activeCommand = i /\ tx_count = 0))
C2_Exclusive == [][C2_Step]_vars

C2_Witness ==
    /\ activeCommand = DEC /\ tx_count # 0 /\ Len(sent) = 2
    /\ received[TEXT] = 1

\* C3: dispatch of a matching byte.  A byte read in READ_CHAR that is entry
\* i of the table selects i and leads to RUN_TASK_START; a task's start is
\* high only in RUN_TASK_WAIT, only for the selected task, and low again
\* after one tick; and every task has seen one start tick, and accepted one
\* start edge, per matching byte read (bar the one whose pulse is pending).
C3_State ==
    \A i \in TaskIds :
       /\ TaskStart(i) => fsm = "RUN_TASK_WAIT" /\ activeCommand = i
       /\ starts[i] = received[i] - Pending(i)
       /\ runs[i] = starts[i]
C3_Step ==
    /\ \A i \in TaskIds :
          (fsm = "READ_CHAR" /\ Letters[i] = RxData) =>
             activeCommand' = i /\ fsm' = "RUN_TASK_START"
    /\ \A i \in TaskIds :
          /\ TaskStart(i) => ~TaskStart(i)'
          /\ TaskStart(i)' => fsm = "RUN_TASK_START"
C3_Dispatch == []C3_State /\ [][C3_Step]_vars

C3_Witness ==
    /\ received[DEC] = 1 /\ starts[DEC] = 1 /\ runs[DEC] = 1
    /\ received[TRIGGER] = 1 /\ starts[TRIGGER] = 1 /\ runs[TRIGGER] = 1
    /\ fsm = "WAIT_MESSAGE"

\* C4: a byte that is no entry of the table is a no-op.  The tick that reads
\* it in READ_CHAR returns to WAIT_MESSAGE with no command selected, no start,
\* every task idle and unchanged, and the transmitter idle and unchanged
\* with tx_o high.
AllIdle == \A i \in TaskIds : TaskFsm(i) = "IDLE"
C4_Step ==
    (fsm = "READ_CHAR" /\ \A i \in TaskIds : Letters[i] # RxData) =>
       /\ fsm' = "WAIT_MESSAGE"
       /\ activeCommand = 0 /\ activeCommand' = 0
       /\ ~activeStart /\ ~activeStart'
       /\ AllIdle /\ UNCHANGED taskVars
       /\ tx_count = 0 /\ tx_o = 1
       /\ UNCHANGED <<tx_shreg, tx_count, tx_phase, sent, starts, runs, received>>
C4_UnknownIsNoOp == [][C4_Step]_vars

C4_Witness ==
    /\ fsm = "WAIT_MESSAGE" /\ rx_ack /\ RxData = UnknownLetter
    /\ host_char = UnknownLetter /\ activeCommand = 0
    /\ \A i \in TaskIds : received[i] = 0

(***************************************************************************)
(* Claims about what the tasks transmit.  `sent` holds the bytes loaded    *)
(* into the transmitter since the last dispatch.  Each printer is checked  *)
(* in rigs that range over its parameters, the host sending one character. *)
(***************************************************************************)
MaxDecWidth == 4
TestDecWidth == 8
MaxBinWidth == 4
MaxTextLen == 3
MaxMemWidth == 3
MaxMemLen == 2

\* What the selected task i may have sent so far, `expected` being its
\* whole output: nothing before it accepted its start edge, and a prefix of
\* `expected` after.
SentSoFar(i, expected) ==
    activeCommand = i =>
       IF runs[i] = received[i] THEN IsPrefix(sent, expected) ELSE sent = <<>>

\* ---- DecimalSignalPrinter
DecCfgs(widths) ==
    UNION {{[BaseCfg EXCEPT !.dec_width = w, !.dec_reset = v] :
              v \in 0 .. AllOnes(w)} : w \in widths}
InitDec ==
    \/ InitRig(DecCfgs(1 .. MaxDecWidth), 1, 1)
    \/ InitRig(DecCfgs({TestDecWidth}), 1, 0)
SpecDec == InitDec /\ [][Next]_vars

\* The decimal digits of v, most significant first, on the digits of the
\* largest `width`-bit number.
DecExpected(v, width) ==
    [k \in 1 .. DecDigits(width) |->
        Ord0 + ((v \div (10 ^ (DecDigits(width) - k))) % 10)]

\* C6: the decimal printer sends the ceil(log10(2^n)) decimal digits of the
\* value the source signal had on the tick the start edge was accepted, most
\* significant first, zero-padded, nothing else, and done rises when all of
\* them are sent, whatever the source signal does afterwards.
C6_DecimalOutput ==
    /\ SentSoFar(DEC, DecExpected(started.dec, cfg.dec_width))
    /\ dec.done => sent = DecExpected(started.dec, cfg.dec_width)

C6_Witness ==
    /\ dec.done /\ cfg.dec_width = 8 /\ started.dec = 128
    /\ sent = <<49, 50, 56>>

\* ---- TextMemoryPrinter
TextBytes == {0, 72, 105}
RECURSIVE SeqsUpTo(_, _)
SeqsUpTo(S, n) ==
    IF n = 0 THEN {<<>>}
    ELSE LET shorter == SeqsUpTo(S, n - 1)
         IN  shorter \cup {Append(q, x) : q \in shorter, x \in S}
TextCfgs ==
    {[BaseCfg EXCEPT !.text_mem = m] : m \in SeqsUpTo(TextBytes, MaxTextLen) \ {<<>>}}
InitText == InitRig(TextCfgs, 1, 0)
SpecText == InitText /\ [][Next]_vars

\* mem up to its first zero byte and a newline, or all of mem if it has none.
TextExpected(mem) ==
    IF \E k \in DOMAIN mem : mem[k] = 0
    THEN LET z == CHOOSE k \in DOMAIN mem :
                     mem[k] = 0 /\ \A j \in 1 .. k - 1 : mem[j] # 0
         IN  Append(SubSeq(mem, 1, z - 1), OrdNewline)
    ELSE mem

\* C7: the text printer sends the bytes before the first zero byte, in
\* address order, then one newline; with no zero byte in the memory it sends
\* all of it and no newline; done rises when that is sent.
C7_TextOutput ==
    /\ SentSoFar(TEXT, TextExpected(cfg.text_mem))
    /\ text.done => sent = TextExpected(cfg.text_mem)

C7_Witness ==
    /\ text.done /\ cfg.text_mem = <<72, 105, 72>> /\ sent = <<72, 105, 72>>

\* ---- BinarySignalPrinter
BsigCfgs ==
    UNION {{[BaseCfg EXCEPT !.bsig_width = w, !.bsig_reset = v] :
              v \in 0 .. AllOnes(w)} : w \in 1 .. MaxBinWidth}
InitBsig == InitRig(BsigCfgs, 1, 1)
SpecBsig == InitBsig /\ [][Next]_vars

BsigExpected(v, width) == [k \in 1 .. width |-> Ord0 + Bit(v, k - 1)]

\* C8: the binary signal printer sends `width` characters, the i-th '1' or
\* '0' as bit i of the value the source signal had on the tick the start edge
\* was accepted, least significant first, whatever the signal does
\* afterwards; done rises when all of them are sent.
C8_BinarySignalOutput ==
    /\ SentSoFar(BSIG, BsigExpected(started.bin, cfg.bsig_width))
    /\ bsig.done => sent = BsigExpected(started.bin, cfg.bsig_width)

C8_Witness ==
    /\ bsig.done /\ cfg.bsig_width = 4 /\ started.bin = 5 /\ bin_signal = 10
    /\ sent = <<49, 48, 49, 48>>

\* ---- BinaryMemoryPrinter
BmemCfgs ==
    UNION {{[BaseCfg EXCEPT !.bmem_width = w, !.bmem_mem = m] :
              m \in SeqsUpTo(0 .. AllOnes(w), MaxMemLen) \ {<<>>}} :
           w \in 1 .. MaxMemWidth}
InitBmem == InitRig(BmemCfgs, 1, 0)
SpecBmem == InitBmem /\ [][Next]_vars

BmemExpected(mem, width) ==
    [k \in 1 .. width * Len(mem) |->
        Ord0 + Bit(mem[((k - 1) \div width) + 1], (k - 1) % width)]

\* C9: the binary memory printer sends width * length characters, words in
\* address order and each word least significant bit first, character
\* j * width + i being bit i of word j; done rises when all of them are sent.
C9_BinaryMemoryOutput ==
    /\ SentSoFar(BMEM, BmemExpected(cfg.bmem_mem, cfg.bmem_width))
    /\ bmem.done => sent = BmemExpected(cfg.bmem_mem, cfg.bmem_width)

C9_Witness ==
    /\ bmem.done /\ cfg.bmem_width = 3 /\ cfg.bmem_mem = <<1, 6>>
    /\ sent = <<49, 48, 48, 48, 49, 49>>

\* ---- Toggler
\* C10: every command byte read for the Toggler flips output once, so that
\* output is its initial value flipped as often as bytes were read for it
\* (bar the one whose start pulse is pending), and the Toggler sends nothing.
C10_Toggler ==
    /\ toggler.output = ((received[TOGGLER] - Pending(TOGGLER)) % 2 = 1)
    /\ activeCommand = TOGGLER => sent = <<>> /\ tx_count = 0

C10_Witness ==
    /\ received[TOGGLER] = 2 /\ ~toggler.output
    /\ fsm = "WAIT_MESSAGE" /\ activeCommand = 0 /\ host_left = 0

(***************************************************************************)
(* Termination of a command.                                               *)
(***************************************************************************)
\* The rig of Spec with two characters from the host, and every printer
\* rig with one.
InitLive ==
    \/ Init
    \/ InitRig(TextCfgs \cup BsigCfgs \cup BmemCfgs
                 \cup DecCfgs(1 .. MaxDecWidth), 1, 0)
\* The clock keeps ticking.
SpecLive == InitLive /\ [][Next]_vars /\ WF_vars(Next)

\* C5: no deadlock.  Under a clock that keeps ticking, whenever a command is
\* selected the dispatcher is eventually back in WAIT_MESSAGE with no
\* command selected, whichever of the six tasks it is.
C5_NoDeadlock ==
    (activeCommand \in TaskIds) ~> (fsm = "WAIT_MESSAGE" /\ activeCommand = 0)

C5_Witness ==
    /\ fsm = "WAIT_MESSAGE" /\ activeCommand = 0
    /\ runs[TEXT] = 1 /\ runs[DEC] = 1 /\ done_last

(***************************************************************************)
(* One command at a time.                                                  *)
(***************************************************************************)
\* A byte is held: its frame completed while a command is running.
Held == fsm = "RUN_TASK_WAIT" /\ rx_rdy

\* C12: at most one command at a time.  While a command runs rx_ack is low;
\* a byte that is ready while a command runs stays ready, with the same
\* rx_data and rx_ack low, and causes no start pulse and no change of
\* activeCommand other than the running task's done edge clearing it on the
\* way to WAIT_MESSAGE; a running command ends in no other way; back in
\* WAIT_MESSAGE the held byte, still the same, is taken to READ_CHAR on the
\* next tick and dispatched by its value on the one after.
C12_State ==
    /\ fsm = "RUN_TASK_WAIT" => ~rx_ack
    /\ Held => ~activeStart /\ rx_count = 0
C12_Step ==
    /\ Held =>
          /\ rx_rdy' /\ ~rx_ack' /\ RxData' = RxData
          /\ ~activeStart' /\ starts' = starts
          /\ \/ activeCommand' = activeCommand /\ fsm' = "RUN_TASK_WAIT"
             \/ DoneEdge /\ activeCommand' = 0 /\ fsm' = "WAIT_MESSAGE"
    /\ (fsm = "RUN_TASK_START" \/ fsm = "RUN_TASK_WAIT") =>
          \/ activeCommand' = activeCommand /\ fsm' = "RUN_TASK_WAIT"
          \/ DoneEdge /\ activeCommand' = 0 /\ fsm' = "WAIT_MESSAGE"
    /\ (fsm = "WAIT_MESSAGE" /\ rx_rdy /\ ~rx_ack) =>
          fsm' = "READ_CHAR" /\ rx_rdy' /\ RxData' = RxData
    /\ (fsm = "READ_CHAR" /\ rx_rdy) =>
          \A i \in TaskIds :
             Letters[i] = RxData =>
                activeCommand' = i /\ fsm' = "RUN_TASK_START"
C12_OneAtATime == []C12_State /\ [][C12_Step]_vars

C12_Witness ==
    /\ Held /\ activeCommand = DEC /\ RxData = Letters[TEXT] /\ DoneEdge
    /\ received[DEC] = 1 /\ received[TEXT] = 0

(***************************************************************************)
(* The handshake of the printers with the transmitter.                     *)
(***************************************************************************)
PrinterIds == {TEXT, BSIG, BMEM, DEC}

\* The selected task offers a byte to the idle transmitter: this tick loads.
LoadPending == UartTxRdy /\ tx_count = 0

\* C20: no double send.  The frames loaded since the dispatch are as many as
\* the bytes the printer emitted (bar the one being loaded on this tick);
\* tx_rdy is high only in the selected printer while it waits for tx_ack,
\* and is low whenever the transmitter is idle again in WAIT_ACK_UP, so a
\* load happens only in WAIT_ACK_DOWN; a printer leaves WAIT_ACK_DOWN only
\* for WAIT_ACK_UP and only on a tick with tx_ack low, leaves WAIT_ACK_UP
\* only on a tick with tx_ack high, and raises done only on that tick.
C20_State ==
    /\ Len(sent) = emitted - (IF LoadPending THEN 1 ELSE 0)
    /\ LoadPending => TaskFsm(activeCommand) = "WAIT_ACK_DOWN"
    /\ \A i \in PrinterIds :
          /\ TaskOut(i).tx_rdy =>
                /\ activeCommand = i
                /\ TaskFsm(i) \in {"WAIT_ACK_DOWN", "WAIT_ACK_UP"}
          /\ (TaskFsm(i) = "WAIT_ACK_UP" /\ tx_count = 0) => ~TaskOut(i).tx_rdy
          /\ TaskOut(i).done => Len(sent) = emitted
C20_Step ==
    \A i \in PrinterIds :
       /\ TaskFsm(i) = "WAIT_ACK_DOWN" =>
             \/ TaskFsm(i)' = "WAIT_ACK_DOWN" /\ tx_count = 0
             \/ TaskFsm(i)' = "WAIT_ACK_UP" /\ tx_count # 0
       /\ TaskFsm(i) = "WAIT_ACK_UP" =>
             \/ TaskFsm(i)' = "WAIT_ACK_UP" /\ tx_count # 0
             \/ TaskFsm(i)' # "WAIT_ACK_UP" /\ tx_count = 0
       /\ (~TaskOut(i).done /\ TaskOut(i).done') =>
             TaskFsm(i) = "WAIT_ACK_UP" /\ tx_count = 0
       /\ (~TaskOut(i).tx_rdy /\ TaskOut(i).tx_rdy') =>
             TaskFsm(i) = "SEND" /\ tx_count = 0
C20_NoDoubleSend == []C20_State /\ [][C20_Step]_vars

C20_Witness ==
    /\ dec.done /\ emitted = 2 /\ sent = <<49, 50>>
    /\ received[TEXT] = 1 /\ received[DEC] = 1

(***************************************************************************)
(* The Trigger.                                                            *)
(***************************************************************************)
\* C11: every command byte read for the Trigger makes output high for one
\* tick: output is high only in FINISH, which lasts one tick, and only after
\* a start edge was accepted; output and done are equal in every state, so
\* they rise and fall together; and the counter of the ticks on which output
\* was high equals the command bytes read for the Trigger (bar the one
\* whose pulse is still to come or is being counted).
C11_State ==
    /\ trigger.output = trigger.done
    /\ trigger.output => trigger.fsm = "FINISH"
    /\ runs[TRIGGER] = received[TRIGGER] - Pending(TRIGGER)
    /\ counter = Trunc(runs[TRIGGER] - (IF trigger.output THEN 1 ELSE 0),
                       CounterBits)
C11_Step ==
    /\ trigger.output => ~trigger.output'
    /\ trigger.output' => Accepts(TRIGGER)
C11_Trigger == []C11_State /\ [][C11_Step]_vars

C11_Witness ==
    /\ received[TRIGGER] = 2 /\ counter = 2 /\ ~trigger.output
    /\ fsm = "WAIT_MESSAGE" /\ activeCommand = 0
(***************************************************************************)
(* The receiver on its own: a UART whose rx_i and rx_ack are driven from   *)
(* outside, with any level and any acknowledge on every tick, and whose    *)
(* transmitter is left idle.                                               *)
(***************************************************************************)
MaxRxDivisor == 5

RxTick ==
    /\ UartTick(FALSE, 0, rx_i, rx_ack)
    /\ RxObserve(rx_i, rx_ack)
    /\ rx_i' \in {0, 1}
    /\ rx_ack' \in BOOLEAN
    /\ UNCHANGED <<cfg, cmdVars, taskVars, envVars, drvVars, histVars,
                   emitted, counter, tx_frame, delivered, dones>>

NextRx == RxTick

InitRx ==
    /\ InitDesign({[BaseCfg EXCEPT !.divisor = d] :
                      d \in MinDivisor .. MaxRxDivisor})
    /\ text = TextInit /\ bmem = BmemInit   \* no task in this rig
    /\ sig_left = 0
    /\ host_pos = 0 /\ host_char = 0 /\ host_left = 0
    /\ drv_pc = "none" /\ drv_wait = 0 /\ test_byte = 0

SpecRx == InitRx /\ [][NextRx]_vars

\* C14: receive overflow.  A byte that is ready and not acknowledged stays
\* ready on the next tick with the same rx_data and shift register, and no
\* frame starts; if the line is low on that tick rx_ovf is set; rx_ovf rises
\* in no other way; and a ready byte always finds the receiver idle.
C14_Step ==
    /\ (rx_rdy /\ ~rx_ack) =>
          /\ rx_rdy' /\ RxData' = RxData /\ rx_shreg' = rx_shreg
          /\ rx_count' = 0 /\ rx_frame' = rx_frame
          /\ rx_i = 0 => rx_ovf'
    /\ (~rx_ovf /\ rx_ovf') => (rx_rdy /\ ~rx_ack /\ rx_i = 0 /\ rx_count = 0)
C14_Overflow == [](rx_rdy => rx_count = 0) /\ [][C14_Step]_vars

C14_Witness ==
    /\ rx_rdy /\ rx_ovf /\ ~rx_ack /\ rx_count = 0
    /\ RxData = 114 /\ Len(rx_frame.samples) = RxLen(cfg.data_bits)

\* The frame the receiver has completed: its first sample is the start bit,
\* the next data_bits are the data, and the one after the last data bit is
\* the stop bit.
FrameDone == rx_count = 0 /\ Len(rx_frame.samples) >= cfg.data_bits + 2
StartSample == rx_frame.samples[1].level
StopSample == rx_frame.samples[cfg.data_bits + 2].level

\* C13: framing error detection.  Whenever the receiver is idle after a
\* frame, rx_err is asserted if and only if the frame's start bit was
\* sampled high or its stop bit, the sample after the last data bit, was
\* sampled low.
C13_FramingError ==
    FrameDone => (RxErr <=> (StartSample = 1 \/ StopSample = 0))

\* C17: receive frame length.  After a start edge the receiver takes
\* data_bits + 2 samples and no more, `divisor` ticks apart, the first half
\* a divisor after the edge; rx_rdy is set by the last of them, the stop-bit
\* sample; and with that sample the receiver is idle again.
C17_FrameLength ==
    LET n == Len(rx_frame.samples)
    IN  /\ n <= cfg.data_bits + 2
        /\ rx_rdy => n = cfg.data_bits + 2
        /\ n = cfg.data_bits + 2 => rx_count = 0
        /\ n > 0 => rx_frame.samples[1].at \in
                        {RxStartPhase(cfg.divisor), RxStartPhase(cfg.divisor) + 1}
        /\ \A k \in 2 .. n :
              rx_frame.samples[k].at
                 = rx_frame.samples[k - 1].at + cfg.divisor

\* C18: no spurious framing error.  rx_err is asserted only when the
\* receiver has completed a frame whose start bit was sampled high or whose
\* stop bit was sampled low; it is 0 at reset and while no frame has been
\* received.
C18_NoSpuriousError ==
    RxErr => (FrameDone /\ (StartSample = 1 \/ StopSample = 0))

(***************************************************************************)
(* The transmitter on its own: a UART whose tx_rdy and tx_data are driven  *)
(* from outside, with any offer or none on every tick, and whose receive   *)
(* line stays idle.                                                        *)
(***************************************************************************)
MaxTxDivisor == 5

TxTick ==
    /\ \E rdy \in BOOLEAN :
          \E data \in IF rdy THEN 0 .. AllOnes(cfg.data_bits) ELSE {0} :
             /\ UartTick(rdy, data, rx_i, rx_ack)
             /\ TxObserve(rdy, data)
    /\ UNCHANGED <<cfg, rx_i, rx_ack, cmdVars, taskVars, envVars, drvVars,
                   histVars, emitted, counter, rx_frame, delivered, dones>>

NextTx == TxTick

InitTx ==
    /\ InitDesign({[BaseCfg EXCEPT !.divisor = d] :
                      d \in MinDivisor .. MaxTxDivisor})
    /\ text = TextInit /\ bmem = BmemInit   \* no task in this rig
    /\ sig_left = 0
    /\ host_pos = 0 /\ host_char = 0 /\ host_left = 0
    /\ drv_pc = "none" /\ drv_wait = 0 /\ test_byte = 0

SpecTx == InitTx /\ [][NextTx]_vars

\* C15: transmit wire format.  From the tick after the idle transmitter
\* takes byte b, tx_o carries a start bit 0, the data bits of b least
\* significant first and a stop bit 1, each for `divisor` ticks; tx_ack is
\* low for exactly these (data_bits + 2) * divisor ticks and high in every
\* other state; and tx_o is 1 whenever the transmitter is idle.
C15_WireFormat ==
    /\ tx_frame.busy <=> tx_count # 0
    /\ tx_frame.busy <=> ~tx_ack
    /\ tx_frame.busy => tx_o = WireLevel(tx_frame.byte, tx_frame.age)
    /\ tx_count = 0 => tx_o = 1

C15_Witness ==
    /\ tx_frame.busy /\ tx_frame.byte = 114 /\ cfg.divisor = 5
    /\ tx_frame.age = (2 * cfg.divisor) + 4 /\ tx_o = 1

\* C19: a send is accepted only while the transmitter is idle.  A tick
\* with tx_rdy high while a frame is in flight, whatever tx_data is, leaves
\* the frame in flight the same byte and its registers where the frame's
\* own progress takes them: the phase one lower, or, at phase 0, the shift
\* register shifted by one bit and the bit count one lower; and tx_ack is
\* high exactly when no accepted frame is in flight.
C19_Step ==
    (tx_count # 0 /\ tx_frame'.offered) =>
       /\ tx_frame'.byte = tx_frame.byte
       /\ IF tx_phase # 0
          THEN /\ tx_shreg' = tx_shreg /\ tx_count' = tx_count
               /\ tx_phase' = tx_phase - 1
          ELSE /\ tx_shreg' = (tx_shreg \div 2) + Pow2(WireBits(cfg.data_bits) - 1)
               /\ tx_count' = tx_count - 1
               /\ tx_phase' = cfg.divisor - 1
       /\ tx_count' # 0 => tx_o' = WireLevel(tx_frame.byte, tx_frame.age + 1)
C19_SendOnlyWhenIdle == [](tx_ack <=> ~tx_frame.busy) /\ [][C19_Step]_vars

C19_Witness ==
    /\ tx_count # 0 /\ tx_frame.offered /\ tx_frame.busy
    /\ tx_frame.byte = 114 /\ tx_frame.age = (6 * cfg.divisor) + 1 /\ tx_o = 1

(***************************************************************************)
(* The loopback rig sending a burst: rx_i wired to tx_o as in              *)
(* test_uart_loopback, tx_rdy held high with test_byte until BurstLen      *)
(* frames have been taken, and a consumer that raises rx_ack for the tick  *)
(* after it sees rx_rdy.                                                   *)
(***************************************************************************)
BurstLen == 2

BurstTick(rdy) ==
    /\ UNCHANGED <<cfg, cmdVars, taskVars, envVars, drv_wait, test_byte,
                   started, received, starts, runs, emitted, counter, tx_frame,
                   dones>>
    /\ UartTick(rdy, test_byte, tx_o, rx_ack)
    /\ RxObserve(tx_o, rx_ack)
    /\ rx_ack' = rx_rdy'
    /\ rx_i' = Bit(tx_shreg', 0)
    /\ sent' = IF tx_count = 0 /\ rdy THEN Append(sent, test_byte) ELSE sent
    /\ delivered' =
          IF ~rx_rdy /\ rx_rdy'
          THEN Append(delivered,
                      [data |-> RxData', err |-> RxErr', ovf |-> rx_ovf'])
          ELSE delivered

\* tx_rdy held high: the next byte is taken on the tick tx_ack is high again.
BurstSend ==
    /\ drv_pc = "burst"
    /\ BurstTick(TRUE)
    /\ drv_pc' = IF Len(sent') = BurstLen THEN "drain" ELSE "burst"

\* tx_rdy low: the frames in flight run out.
BurstDrain ==
    /\ drv_pc = "drain"
    /\ BurstTick(FALSE)
    /\ drv_pc' = "drain"

NextBurst == BurstSend \/ BurstDrain

InitBurst ==
    /\ InitDesign({[BaseCfg EXCEPT !.divisor = d] :
                      d \in MinDivisor .. MaxDivisor})
    /\ text = TextInit /\ bmem = BmemInit   \* no task in this rig
    /\ sig_left = 0
    /\ host_pos = 0 /\ host_char = 0 /\ host_left = 0
    /\ drv_pc = "burst" /\ drv_wait = 0
    /\ test_byte \in 0 .. AllOnes(cfg.data_bits)

SpecBurst == InitBurst /\ [][NextBurst]_vars

\* C16: round trip of consecutive bytes.  When bytes are sent back to back
\* into the receiver and every byte is acknowledged as soon as rx_rdy rises,
\* the k-th byte the receiver delivers is the k-th byte sent, with rx_err
\* and rx_ovf low, and once the line has been idle for a frame all bytes
\* sent have been delivered.
C16_BurstRoundTrip ==
    /\ Len(delivered) <= Len(sent)
    /\ \A k \in 1 .. Len(delivered) :
          delivered[k] = [data |-> sent[k], err |-> FALSE, ovf |-> FALSE]

(***************************************************************************)
(* The printers' tx_rdy during the handshake.                              *)
(***************************************************************************)
\* C21 as stated: tx_rdy, once asserted in SEND, stays asserted through
\* WAIT_ACK_DOWN and WAIT_ACK_UP until the tick on which the handler reads
\* tx_ack true in WAIT_ACK_UP, and is cleared only on that tick.
C21_HeldStep ==
    \A i \in PrinterIds :
       /\ (TaskOut(i).tx_rdy /\ ~(TaskFsm(i) = "WAIT_ACK_UP" /\ TaskTxAck(i)))
             => TaskOut(i).tx_rdy'
       /\ (TaskOut(i).tx_rdy /\ ~TaskOut(i).tx_rdy')
             => (TaskFsm(i) = "WAIT_ACK_UP" /\ TaskTxAck(i))
C21_HeldUntilAck == [][C21_HeldStep]_vars

\* C21 as amended: tx_rdy is raised by the tick of SEND that goes to
\* WAIT_ACK_DOWN, is high in every state of WAIT_ACK_DOWN and on the first
\* tick of WAIT_ACK_UP, and is cleared by that first tick, on which tx_ack
\* reads false; it is low on every later tick of WAIT_ACK_UP, the one that
\* reads tx_ack true included, and outside these two states.
C21_State ==
    \A i \in PrinterIds :
       /\ TaskFsm(i) = "WAIT_ACK_DOWN" => TaskOut(i).tx_rdy
       /\ TaskOut(i).tx_rdy => TaskFsm(i) \in {"WAIT_ACK_DOWN", "WAIT_ACK_UP"}
       /\ (TaskFsm(i) = "WAIT_ACK_UP" /\ TaskTxAck(i)) => ~TaskOut(i).tx_rdy
C21_Step ==
    \A i \in PrinterIds :
       /\ (TaskFsm(i) = "SEND" /\ TaskFsm(i)' = "WAIT_ACK_DOWN")
             => (~TaskOut(i).tx_rdy /\ TaskOut(i).tx_rdy')
       /\ TaskFsm(i) = "WAIT_ACK_DOWN" => TaskOut(i).tx_rdy'
       /\ TaskFsm(i) = "WAIT_ACK_UP" => ~TaskOut(i).tx_rdy'
       /\ (TaskOut(i).tx_rdy /\ ~TaskOut(i).tx_rdy')
             => (TaskFsm(i) = "WAIT_ACK_UP" /\ ~TaskTxAck(i))
C21_ClearedOnEntry == []C21_State /\ [][C21_Step]_vars

C21_Witness ==
    /\ activeCommand = BSIG /\ bsig.fsm = "WAIT_ACK_UP" /\ ~bsig.tx_rdy
    /\ tx_count # 0 /\ Len(sent) = 2

(***************************************************************************)
(* The done pulse.                                                         *)
(***************************************************************************)
\* A printer is running from the start edge it accepted to its return to
\* IDLE; the Toggler and the Trigger complete on the tick that accepts.
Running(i) == i \in PrinterIds /\ TaskFsm(i) # "IDLE"
DoneNow(i) == IF TaskOut(i).done THEN 1 ELSE 0

\* C22: done is high for one tick per completed invocation.  For each of
\* the six tasks, the ticks on which done was or is high are as many as the
\* invocations it has completed; done is never high on two consecutive
\* ticks; and done is low while a printer runs and high in a printer only
\* in IDLE, in the Toggler and the Trigger only in FINISH.
C22_State ==
    \A i \in TaskIds :
       /\ dones[i] + DoneNow(i) = runs[i] - (IF Running(i) THEN 1 ELSE 0)
       /\ Running(i) => ~TaskOut(i).done
       /\ TaskOut(i).done =>
             TaskFsm(i) = (IF i \in PrinterIds THEN "IDLE" ELSE "FINISH")
C22_Step == \A i \in TaskIds : TaskOut(i).done => ~TaskOut(i).done'
C22_DonePulse == []C22_State /\ [][C22_Step]_vars

C22_Witness ==
    /\ dones[TOGGLER] = 1 /\ runs[TOGGLER] = 1 /\ ~toggler.done
    /\ dones[BMEM] = 0 /\ runs[BMEM] = 1 /\ bmem.done

(***************************************************************************)
(* A handler driven directly: one task wired to the UART with no           *)
(* dispatcher in between, its start input driven from outside with any     *)
(* waveform.  activeCommand names the task that is wired and never         *)
(* changes; activeStart is the level of start during the current tick;     *)
(* drv_pc tells whether that level is low, has just risen or is held, and  *)
(* drv_wait counts the rising edges driven so far.                         *)
(***************************************************************************)
MaxEdges == 3

DirectTick ==
    /\ UartTick(UartTxRdy, UartTxData, rx_i, rx_ack)
    /\ TasksTick
    /\ CounterTick
    /\ sent' = IF TxLoads THEN Append(sent, Trunc(UartTxData, cfg.data_bits))
               ELSE sent
    /\ runs' = [i \in TaskIds |-> runs[i] + IF Accepts(i) THEN 1 ELSE 0]
    /\ started' = [bin |-> IF Accepts(BSIG) THEN bin_signal ELSE started.bin,
                   dec |-> IF Accepts(DEC) THEN dec_signal ELSE started.dec]
    /\ UNCHANGED <<cfg, rx_i, rx_ack, fsm, activeCommand, done_last, envVars,
                   test_byte, received, starts, emitted, tx_frame, rx_frame,
                   delivered, dones>>

StartRise ==
    /\ ~activeStart /\ drv_wait < MaxEdges
    /\ activeStart' = TRUE /\ drv_pc' = "rose" /\ drv_wait' = drv_wait + 1
    /\ DirectTick

StartHold ==
    /\ activeStart
    /\ activeStart' = TRUE /\ drv_pc' = "held" /\ UNCHANGED drv_wait
    /\ DirectTick

StartFall ==
    /\ activeStart
    /\ activeStart' = FALSE /\ drv_pc' = "low" /\ UNCHANGED drv_wait
    /\ DirectTick

StartLow ==
    /\ ~activeStart
    /\ activeStart' = FALSE /\ drv_pc' = "low" /\ UNCHANGED drv_wait
    /\ DirectTick

NextDirect == StartRise \/ StartHold \/ StartFall \/ StartLow

\* The rig of a task h, built with one of cfgs.
InitDirect(cfgs, h) ==
    /\ InitWired(cfgs, h)
    /\ sig_left = 0
    /\ host_pos = 0 /\ host_char = 0 /\ host_left = 0
    /\ drv_pc = "low" /\ drv_wait = 0 /\ test_byte = 0

InitDirectAll == \E h \in TaskIds : InitDirect({BaseCfg}, h)
SpecDirect == InitDirectAll /\ [][NextDirect]_vars

\* The bytes one run of printer i sends.
RunOutput(i) ==
    CASE i = TEXT -> TextExpected(cfg.text_mem)
      [] i = BSIG -> BsigExpected(bin_signal, cfg.bsig_width)
      [] i = BMEM -> BmemExpected(cfg.bmem_mem, cfg.bmem_width)
      [] i = DEC -> DecExpected(dec_signal, cfg.dec_width)
      [] OTHER -> <<>>

\* The k-th byte of back-to-back runs that each send `out`.
Cycle(out, k) == out[((k - 1) % Len(out)) + 1]

\* C23: a handler driven directly executes its operation once per rising
\* edge of start that arrives while it is idle, and at no other time: never
\* more often than start rose, not again while start is held high, and a
\* rising edge that arrives during a printer's run neither restarts nor
\* alters the run.  The Toggler's output has flipped once per accepted edge,
\* the Trigger has pulsed once per accepted edge, and a printer has sent its
\* whole output once per accepted edge.
C23_State ==
    LET h == activeCommand
        out == RunOutput(h)
        n == Len(out)
    IN  /\ runs[h] <= drv_wait
        /\ h = TOGGLER => (toggler.output <=> runs[h] % 2 = 1)
        /\ h = TRIGGER =>
              counter + (IF trigger.output THEN 1 ELSE 0) = runs[h]
        /\ h \in PrinterIds =>
              /\ \A k \in 1 .. Len(sent) : sent[k] = Cycle(out, k)
              /\ Len(sent) <= runs[h] * n
              /\ Len(sent) >= (runs[h] - (IF Running(h) THEN 1 ELSE 0)) * n
C23_Step ==
    LET h == activeCommand
        taken == drv_pc = "rose" /\ TaskFsm(h) = "IDLE"
    IN  /\ taken => (runs'[h] = runs[h] + 1 /\ TaskFsm(h)' # "IDLE")
        /\ ~taken => /\ runs' = runs
                     /\ TaskFsm(h) = "IDLE" => TaskFsm(h)' = "IDLE"
                     /\ toggler.output' = toggler.output
C23_EdgeDetect == []C23_State /\ [][C23_Step]_vars
\* Start rose twice and has been high ever since the second edge, which came
\* during the only run; the run's output is complete and unaltered.
C23_Witness ==
    /\ activeCommand = DEC /\ drv_wait = 2 /\ drv_pc = "held"
    /\ runs[DEC] = 1 /\ dec.fsm = "IDLE" /\ ~dec.done
    /\ sent = <<Ord1, Ord0 + 2>>

\* C24: only the selected task is ever active: on every tick each task whose
\* index differs from activeCommand is in IDLE with tx_rdy and done low, so
\* a task is outside IDLE, or has tx_rdy or done high, only while
\* activeCommand is its index.
C24_OnlySelectedActive ==
    \A i \in TaskIds :
       i # activeCommand =>
          /\ TaskFsm(i) = "IDLE"
          /\ ~TaskOut(i).tx_rdy
          /\ ~TaskOut(i).done
\* The decimal printer is in the middle of its run, after the Toggler ran
\* and went back to rest.
C24_Witness ==
    /\ activeCommand = DEC /\ dec.fsm = "WAIT_ACK_UP" /\ Len(sent) = 1
    /\ runs[TOGGLER] = 1 /\ toggler.fsm = "IDLE" /\ ~toggler.done

\* C25: whenever activeCommand = 0 the transmitter is idle, tx_count = 0 and
\* tx_o = 1; a handler has done high only when the transmitter has shifted
\* out its last frame down to the stop bit, and the dispatcher deselects a
\* task only on such a tick, so the transmit path is never released while
\* a frame is on the wire.
C25_State ==
    /\ activeCommand = 0 => (tx_count = 0 /\ tx_o = 1)
    /\ \A i \in TaskIds : TaskOut(i).done => (tx_count = 0 /\ tx_o = 1)
C25_Step ==
    \A i \in TaskIds :
       (~TaskOut(i).done /\ TaskOut(i).done') => (tx_count = 0 /\ tx_count' = 0)
C25_IdleWhenReleased == []C25_State /\ [][C25_Step]_vars
\* The decimal printer's two frames are out and the dispatcher has released
\* the transmit path.
C25_Witness ==
    /\ activeCommand = 0 /\ fsm = "WAIT_MESSAGE" /\ runs[DEC] = 1
    /\ sent = <<Ord1, Ord0 + 2>> /\ tx_count = 0 /\ tx_o = 1

\* C26: re-invocation is repeatable.  With memory and signal contents
\* unchanged every run of a printer command, the first and any later one,
\* sends the same bytes, a text that ends early on a zero byte included.
\* m_idx and b_idx are 0 whenever their handler is in IDLE; print_newline
\* is low in IDLE except on the first IDLE tick after a run, the one with
\* done high, which clears it; digit, base, baseExp and snapshot keep their
\* end-of-run values in IDLE and are loaded with their start-of-run values
\* by the accepted start edge.
C26_SameBytes ==
    \A i \in PrinterIds :
       activeCommand = i =>
          /\ runs[i] = received[i] => IsPrefix(sent, RunOutput(i))
          /\ runs[i] # received[i] => sent = <<>>
          /\ TaskOut(i).done => sent = RunOutput(i)
C26_State ==
    /\ C26_SameBytes
    /\ text.fsm = "IDLE" =>
          (text.m_idx = 0 /\ (text.print_newline => text.done))
    /\ bmem.fsm = "IDLE" => (bmem.m_idx = 0 /\ bmem.b_idx = 0)
C26_Step ==
    /\ Accepts(TEXT) => (text.m_idx' = 0 /\ ~text.print_newline')
    /\ Accepts(BMEM) => (bmem.m_idx' = 0 /\ bmem.b_idx' = 0)
    /\ Accepts(BSIG) => (bsig.digit' = 0 /\ bsig.snapshot' = bin_signal)
    /\ Accepts(DEC) =>
          /\ dec.digit' = DecDigits(cfg.dec_width) - 1
          /\ dec.base' = 1 /\ dec.baseExp' = 0
          /\ dec.snapshot' = dec_signal
====
